---- MODULE Spec2Model ----
(***************************************************************************)
(* Model of the weather ETL DAG of src/dags/etl_weather_.py: the six       *)
(* TaskFlow tasks (get_active_locations, extract_weather_data,             *)
(* transform_weather_data, load_weather_data, generate_weather_summary,    *)
(* data_quality_check), the orchestrator that runs them from the declared  *)
(* dependencies, and the stores they talk to.                              *)
(*                                                                         *)
(* Conventions.                                                            *)
(*   - Python None / SQL NULL is the empty tuple Null; a present value v   *)
(*     is Some(v) = <<v>>.                                                 *)
(*   - A Python dict is an insertion-ordered sequence of <<key, value>>    *)
(*     pairs with distinct keys.                                           *)
(*   - A city name is a sequence of one-character strings, so that         *)
(*     .lower() and .replace(' ', '_') are computed, not assumed.          *)
(*   - Time is counted in whole hours.  A datetime is a record             *)
(*     [wall, aware, off]: the wall-clock reading, whether it carries a    *)
(*     zone, and the zone's UTC offset (0 when naive).                     *)
(*   - Latitudes and longitudes are in units of 1e-4 degree.               *)
(***************************************************************************)
EXTENDS Integers, Sequences, FiniteSets, TLC

VARIABLES
    state,            \* task -> its state in the orchestrator
    try_number,       \* task -> number of executions started so far
    store,            \* the configuration store (cities_config)
    local_offset,     \* UTC offset of the process's local zone
    clock,            \* the current UTC time
    locations,        \* return value of get_active_locations
    loc_log,          \* which log branch get_active_locations took
    prev_locations,   \* return value of the previous call (Null before any)
    store_changed,    \* has the store changed since the previous call
    http_calls,       \* the slugs whose endpoint was requested, in order
    http_responses,   \* what each of those requests met
    raw_data,         \* return value of extract_weather_data
    current_local,    \* transform_weather_data's local "now"
    current_utc,      \* transform_weather_data's UTC "now"
    transformed_data, \* return value of transform_weather_data
    weather_data,     \* the rows of table weather_data
    insert_calls,     \* the records whose INSERT was attempted, in order
    insert_results,   \* for each attempted INSERT, whether it succeeded
    load_result,      \* return value of load_weather_data
    summary,          \* return value of generate_weather_summary
    quality_check     \* return value of data_quality_check

vars == <<state, try_number, store, local_offset, clock, locations, loc_log,
          prev_locations, store_changed, http_calls, http_responses, raw_data,
          current_local, current_utc, transformed_data, weather_data,
          insert_calls, insert_results, load_result, summary, quality_check>>

-----------------------------------------------------------------------------
(* Python values *)

Null == <<>>

Some(v) == <<v>>

IsNull(o) == o = Null

Val(o) == o[1]

(* A dict as an insertion-ordered sequence of <<key, value>> pairs. *)
EmptyDict == <<>>

DictKeys(d) == {d[i][1] : i \in DOMAIN d}

DictHas(d, k) == \E i \in DOMAIN d : d[i][1] = k

DictGet(d, k) == d[CHOOSE i \in DOMAIN d : d[i][1] = k][2]

DictSet(d, k, v) ==
    IF DictHas(d, k)
    THEN [i \in DOMAIN d |-> IF d[i][1] = k THEN <<k, v>> ELSE d[i]]
    ELSE Append(d, <<k, v>>)

(* dict.get(k) of a record-shaped mapping: Null when the key is absent. *)
Get(m, k) == IF k \in DOMAIN m THEN Some(m[k]) ELSE Null

(* str.lower() and str.replace(' ', '_') on a sequence of characters. *)
Lower(c) ==
    CASE c = "G" -> "g"
      [] c = "L" -> "l"
      [] c = "N" -> "n"
      [] c = "P" -> "p"
      [] c = "S" -> "s"
      [] c = "T" -> "t"
      [] c = "Y" -> "y"
      [] OTHER -> c

StrLower(s) == [i \in DOMAIN s |-> Lower(s[i])]

StrReplace(s, a, b) == [i \in DOMAIN s |-> IF s[i] = a THEN b ELSE s[i]]

-----------------------------------------------------------------------------
(* Configuration *)

London == <<"L", "o", "n", "d", "o", "n">>

NewYork == <<"N", "e", "w", " ", "Y", "o", "r", "k">>

Tokyo == <<"T", "o", "k", "y", "o">>

Sydney == <<"S", "y", "d", "n", "e", "y">>

Paris == <<"P", "a", "r", "i", "s">>

DEFAULT_LOCATIONS ==
    << <<StrLower(London),
         [name |-> London, country |-> "United Kingdom", lat |-> 515074,
          lon |-> -1278, timezone |-> "Europe/London"]>>,
       << <<"n", "e", "w", "_", "y", "o", "r", "k">>,
         [name |-> NewYork, country |-> "United States", lat |-> 407128,
          lon |-> -740060, timezone |-> "America/New_York"]>>,
       <<StrLower(Tokyo),
         [name |-> Tokyo, country |-> "Japan", lat |-> 356762,
          lon |-> 1396503, timezone |-> "Asia/Tokyo"]>>,
       <<StrLower(Sydney),
         [name |-> Sydney, country |-> "Australia", lat |-> -338688,
          lon |-> 1512093, timezone |-> "Australia/Sydney"]>>,
       <<StrLower(Paris),
         [name |-> Paris, country |-> "France", lat |-> 488566,
          lon |-> 23522, timezone |-> "Europe/Paris"]>> >>

-----------------------------------------------------------------------------
(* Location Provider *)

(* The rows the query returns: those with is_active = TRUE, as               *)
(* (city_name, country, latitude, longitude, timezone).                      *)
ActiveRows(rows) == SelectSeq(rows, LAMBDA r : r.is_active)

(* Converting one row raises when city_name is NULL (None.lower()) or when   *)
(* latitude or longitude is NULL (float(None)).                              *)
RowRaises(r) ==
    IsNull(r.city_name) \/ IsNull(r.latitude) \/ IsNull(r.longitude)

CityKey(name) == StrReplace(StrLower(name), " ", "_")

RECURSIVE BuildLocations(_, _)
BuildLocations(records, acc) ==
    IF records = <<>> THEN acc
    ELSE LET record == Head(records)
         IN  BuildLocations(
                 Tail(records),
                 DictSet(acc, CityKey(Val(record.city_name)),
                         [name |-> Val(record.city_name),
                          country |-> record.country,
                          lat |-> Val(record.latitude),
                          lon |-> Val(record.longitude),
                          timezone |-> record.timezone]))

(* get_active_locations without its fallback on an empty result. *)
GetActiveLocationsNoEmptyFallback(st) ==
    IF ~st.up
    THEN [ret |-> DEFAULT_LOCATIONS, log |-> "error"]
    ELSE LET records == ActiveRows(st.rows)
         IN  IF \E i \in DOMAIN records : RowRaises(records[i])
             THEN [ret |-> DEFAULT_LOCATIONS, log |-> "error"]
             ELSE [ret |-> BuildLocations(records, EmptyDict),
                   log |-> "retrieved"]

(* The whole function: its return value and the log branch it took. *)
get_active_locations(st) ==
    IF ~st.up
    THEN [ret |-> DEFAULT_LOCATIONS, log |-> "error"]
    ELSE LET records == ActiveRows(st.rows)
         IN  IF records = <<>>
             THEN [ret |-> DEFAULT_LOCATIONS, log |-> "no_active"]
             ELSE IF \E i \in DOMAIN records : RowRaises(records[i])
             THEN [ret |-> DEFAULT_LOCATIONS, log |-> "error"]
             ELSE [ret |-> BuildLocations(records, EmptyDict),
                   log |-> "retrieved"]

-----------------------------------------------------------------------------
(* Weather Fetcher *)

(* ExtractOne without the test of status_code. *)
ExtractOneAnyStatus(acc, city_key, location, response) ==
    LET called == [acc EXCEPT !.calls = Append(@, city_key)]
    IN  IF response.kind = "raise" \/ IsNull(response.json) THEN called
        ELSE LET api_data == Val(response.json)
             IN  [called EXCEPT !.weather_data =
                     DictSet(@, city_key,
                             [location |-> location,
                              current |-> IF "current" \in DOMAIN api_data
                                          THEN api_data.current ELSE <<>>,
                              daily |-> IF "daily" \in DOMAIN api_data
                                        THEN api_data.daily ELSE <<>>,
                              api_response |-> api_data])]

(* One iteration of the loop over locations.items().  A response is          *)
(*   [kind |-> "raise"]                       http_hook.run raised            *)
(*   [kind |-> "response", status_code, json] json = Null when               *)
(*                                            response.json() raises          *)
(* acc is [weather_data, calls]: the dict built so far and the slugs whose    *)
(* endpoint was requested so far.                                             *)
ExtractOne(acc, city_key, location, response) ==
    LET called == [acc EXCEPT !.calls = Append(@, city_key)]
    IN  IF response.kind = "raise" THEN called
        ELSE IF response.status_code = 200
        THEN IF IsNull(response.json) THEN called
             ELSE LET api_data == Val(response.json)
                      current == IF "current" \in DOMAIN api_data
                                 THEN api_data.current ELSE <<>>
                      daily == IF "daily" \in DOMAIN api_data
                               THEN api_data.daily ELSE <<>>
                  IN  [called EXCEPT !.weather_data =
                          DictSet(@, city_key,
                                  [location |-> location,
                                   current |-> current,
                                   daily |-> daily,
                                   api_response |-> api_data])]
        ELSE called

RECURSIVE ExtractLoop(_, _, _)
ExtractLoop(locs, responses, acc) ==
    IF locs = <<>> THEN acc
    ELSE ExtractLoop(Tail(locs), Tail(responses),
                     ExtractOne(acc, Head(locs)[1], Head(locs)[2],
                                Head(responses)))

(* responses[i] is what the i-th location's request meets. *)
extract_weather_data(locs, responses) ==
    ExtractLoop(locs, responses, [weather_data |-> EmptyDict, calls |-> <<>>])

-----------------------------------------------------------------------------
(* Datetimes *)

Naive(wall) == [wall |-> wall, aware |-> FALSE, off |-> 0]

Aware(wall, off) == [wall |-> wall, aware |-> TRUE, off |-> off]

(* The physical instant (hours since the epoch, UTC) of an aware datetime. *)
Instant(dt) == dt.wall - dt.off

(* get_utc_now and get_local_now at UTC time now in a process whose local    *)
(* zone is lo hours ahead of UTC.                                            *)
get_utc_now(now) == Aware(now, 0)

get_local_now(now, lo) == Naive(now + lo)

(* dt.astimezone(timezone.utc) and dt.astimezone() of an aware datetime. *)
AsTimezoneUtc(dt) == Aware(Instant(dt), 0)

AsTimezoneLocal(dt, lo) == Aware(Instant(dt) + lo, lo)

ReplaceTzinfoNone(dt) == Naive(dt.wall)

ReplaceTzinfoUtc(dt) == Aware(dt.wall, 0)

(* A timestamp string is [form, sep, wall, suffix]:                          *)
(*   form    "empty" for '', "iso" for digits in ISO layout, "junk" else     *)
(*   sep     the character between date and time ("T", " " or "" if none)    *)
(*   wall    the date and time the digits spell, in hours                    *)
(*   suffix  what follows the time: "", "Z" or a UTC offset "+hh:00"         *)
EmptyStr == [form |-> "empty", sep |-> "", wall |-> 0, suffix |-> ""]

IsoStr(sep, wall, suffix) ==
    [form |-> "iso", sep |-> sep, wall |-> wall, suffix |-> suffix]

JunkStr(sep) == [form |-> "junk", sep |-> sep, wall |-> 0, suffix |-> ""]

Truthy(s) == s.form # "empty"

ContainsT(s) == s.sep = "T"

(* s.replace('Z', '+00:00') *)
ReplaceZ(s) == [s EXCEPT !.suffix = IF @ = "Z" THEN "+00:00" ELSE @]

SuffixOffsets == [x \in {"+00:00", "+02:00", "-05:00"} |->
                    CASE x = "+00:00" -> 0
                      [] x = "+02:00" -> 2
                      [] x = "-05:00" -> -5]

(* datetime.fromisoformat: raises on anything but ISO digits followed by     *)
(* nothing or by a numeric offset.                                           *)
FromIsoformatRaises(s) ==
    s.form # "iso" \/ s.suffix \notin (DOMAIN SuffixOffsets \cup {""})

FromIsoformat(s) ==
    IF s.suffix = "" THEN Naive(s.wall)
    ELSE Aware(s.wall, SuffixOffsets[s.suffix])

(* dt.time().strftime('%H:%M:%S') as <<HH, MM, SS>>. *)
TimeOfDay(dt) == <<dt.wall % 24, 0, 0>>

-----------------------------------------------------------------------------
(* Record Normalizer *)

weather_codes ==
    << <<0, "Clear sky">>, <<1, "Mainly clear">>, <<2, "Partly cloudy">>,
       <<3, "Overcast">>, <<45, "Fog">>, <<48, "Depositing rime fog">>,
       <<51, "Light drizzle">>, <<53, "Moderate drizzle">>,
       <<55, "Dense drizzle">>, <<56, "Light freezing drizzle">>,
       <<57, "Dense freezing drizzle">>, <<61, "Slight rain">>,
       <<63, "Moderate rain">>, <<65, "Heavy rain">>,
       <<66, "Light freezing rain">>, <<67, "Heavy freezing rain">>,
       <<71, "Slight snow fall">>, <<73, "Moderate snow fall">>,
       <<75, "Heavy snow fall">>, <<77, "Snow grains">>,
       <<80, "Slight rain showers">>, <<81, "Moderate rain showers">>,
       <<82, "Violent rain showers">>, <<85, "Slight snow showers">>,
       <<86, "Heavy snow showers">>, <<95, "Thunderstorm">>,
       <<96, "Thunderstorm with slight hail">>,
       <<99, "Thunderstorm with heavy hail">> >>

(* weather_codes.get(weather_code, f"Unknown ({weather_code})"): the text,   *)
(* and the code an "Unknown (<code>)" spells out.                            *)
WeatherDescription(weather_code) ==
    IF DictHas(weather_codes, weather_code)
    THEN [text |-> DictGet(weather_codes, weather_code), code |-> Null]
    ELSE [text |-> "Unknown", code |-> Some(weather_code)]

(* The sunrise/sunset block: Null when the key is absent or the list is       *)
(* empty, else the time of day of the first element.                         *)
SunTimeRaises(daily, key) ==
    /\ key \in DOMAIN daily
    /\ Len(daily[key]) > 0
    /\ FromIsoformatRaises(ReplaceZ(daily[key][1]))

SunTime(daily, key) ==
    IF key \in DOMAIN daily /\ Len(daily[key]) > 0
    THEN Some(TimeOfDay(FromIsoformat(ReplaceZ(daily[key][1]))))
    ELSE Null

(* ResolveTimestamps with the missing-separator branch reading the UTC      *)
(* "now" for both fields.                                                    *)
ResolveTimestampsUtcForBoth(current, cl, cu, lo) ==
    LET api_timestamp == Get(current, "time")
        fallback == [local |-> cl, utc |-> cu]
    IN  IF IsNull(api_timestamp) \/ ~Truthy(Val(api_timestamp))
        THEN fallback
        ELSE IF ~ContainsT(Val(api_timestamp))
        THEN [local |-> ReplaceTzinfoNone(cu), utc |-> cu]
        ELSE IF FromIsoformatRaises(ReplaceZ(Val(api_timestamp)))
        THEN fallback
        ELSE LET parsed_timestamp ==
                     FromIsoformat(ReplaceZ(Val(api_timestamp)))
             IN  IF parsed_timestamp.aware
                 THEN [local |-> ReplaceTzinfoNone(
                                     AsTimezoneLocal(parsed_timestamp, lo)),
                       utc |-> AsTimezoneUtc(parsed_timestamp)]
                 ELSE [local |-> parsed_timestamp,
                       utc |-> ReplaceTzinfoUtc(parsed_timestamp)]

(* The timestamp block: the pair (local_timestamp, utc_timestamp) for one    *)
(* record, given the two "now" values captured at entry and the process's    *)
(* local UTC offset lo.  It never raises: the parse is inside its own try.   *)
ResolveTimestamps(current, cl, cu, lo) ==
    LET api_timestamp == Get(current, "time")
        fallback == [local |-> cl, utc |-> cu]
    IN  IF IsNull(api_timestamp) \/ ~Truthy(Val(api_timestamp))
        THEN fallback
        ELSE IF ~ContainsT(Val(api_timestamp))
        THEN fallback
        ELSE IF FromIsoformatRaises(ReplaceZ(Val(api_timestamp)))
        THEN fallback
        ELSE LET parsed_timestamp ==
                     FromIsoformat(ReplaceZ(Val(api_timestamp)))
             IN  IF parsed_timestamp.aware
                 THEN [local |-> ReplaceTzinfoNone(
                                     AsTimezoneLocal(parsed_timestamp, lo)),
                       utc |-> AsTimezoneUtc(parsed_timestamp)]
                 ELSE [local |-> parsed_timestamp,
                       utc |-> ReplaceTzinfoUtc(parsed_timestamp)]

(* daily.get('uv_index_max', [None])[0]: indexing an empty list raises. *)
UvIndexRaises(daily) ==
    "uv_index_max" \in DOMAIN daily /\ Len(daily.uv_index_max) = 0

UvIndex(daily) ==
    IF "uv_index_max" \in DOMAIN daily
    THEN Some(daily.uv_index_max[1])
    ELSE Null

(* current.get('weather_code', 0) *)
WeatherCode(current) ==
    IF "weather_code" \in DOMAIN current THEN current.weather_code ELSE 0

(* Does the body of the per-location try block raise for this entry. *)
TransformRaises(data) ==
    \/ SunTimeRaises(data.daily, "sunrise")
    \/ SunTimeRaises(data.daily, "sunset")
    \/ UvIndexRaises(data.daily)

(* The record the try block builds when it does not raise. *)
TransformRecord(data, cl, cu, lo) ==
    LET location == data.location
        current == data.current
        daily == data.daily
        weather_code == WeatherCode(current)
        ts == ResolveTimestamps(current, cl, cu, lo)
    IN  [city_name |-> location.name,
         country |-> location.country,
         latitude |-> location.lat,
         longitude |-> location.lon,
         temperature |-> Get(current, "temperature_2m"),
         feels_like |-> Get(current, "apparent_temperature"),
         humidity |-> Get(current, "relative_humidity_2m"),
         pressure |-> Get(current, "pressure_msl"),
         windspeed |-> Get(current, "wind_speed_10m"),
         winddirection |-> Get(current, "wind_direction_10m"),
         visibility |-> Null,
         uv_index |-> UvIndex(daily),
         cloud_cover |-> Get(current, "cloud_cover"),
         weathercode |-> Some(weather_code),
         weather_description |-> WeatherDescription(weather_code),
         sunrise |-> SunTime(daily, "sunrise"),
         sunset |-> SunTime(daily, "sunset"),
         timezone |-> location.timezone,
         timestamp |-> ts.local,
         timestamp_utc |-> ts.utc]

RECURSIVE TransformLoop(_, _, _, _, _)
TransformLoop(raw, cl, cu, lo, acc) ==
    IF raw = <<>> THEN acc
    ELSE TransformLoop(
             Tail(raw), cl, cu, lo,
             IF TransformRaises(Head(raw)[2]) THEN acc
             ELSE Append(acc, TransformRecord(Head(raw)[2], cl, cu, lo)))

(* cl and cu are get_local_now() and get_utc_now() read at entry. *)
transform_weather_data(raw, cl, cu, lo) ==
    TransformLoop(raw, cl, cu, lo, <<>>)

-----------------------------------------------------------------------------
(* Record Loader *)

(* LoadLoop leaving the loop at the first INSERT that raises. *)
RECURSIVE LoadLoopStopOnFailure(_, _, _)
LoadLoopStopOnFailure(records, ok, acc) ==
    IF records = <<>> THEN acc
    ELSE LET record == Head(records)
             tried == [acc EXCEPT !.calls = Append(@, record),
                                  !.results = Append(@, Head(ok))]
         IN  IF Head(ok)
             THEN LoadLoopStopOnFailure(
                      Tail(records), Tail(ok),
                      [tried EXCEPT !.loaded_records = @ + 1,
                                    !.rows = Append(@, record)])
             ELSE [tried EXCEPT !.failed_records = @ + 1]

(* ok[i] tells whether the i-th record's INSERT succeeds.  acc is            *)
(* [loaded_records, failed_records, calls, results, rows].                   *)
RECURSIVE LoadLoop(_, _, _)
LoadLoop(records, ok, acc) ==
    IF records = <<>> THEN acc
    ELSE LET record == Head(records)
             tried == [acc EXCEPT !.calls = Append(@, record),
                                  !.results = Append(@, Head(ok))]
         IN  LoadLoop(
                 Tail(records), Tail(ok),
                 IF Head(ok)
                 THEN [tried EXCEPT !.loaded_records = @ + 1,
                                    !.rows = Append(@, record)]
                 ELSE [tried EXCEPT !.failed_records = @ + 1])

(* ret is the dict returned; calls, results and rows are the INSERTs         *)
(* attempted, their outcomes and the rows they added.                        *)
load_weather_data(transformed_records, ok) ==
    IF transformed_records = <<>>
    THEN [ret |-> [loaded_records |-> 0, failed_records |-> 0],
          calls |-> <<>>, results |-> <<>>, rows |-> <<>>]
    ELSE LET done == LoadLoop(transformed_records, ok,
                              [loaded_records |-> 0, failed_records |-> 0,
                               calls |-> <<>>, results |-> <<>>,
                               rows |-> <<>>])
         IN  [ret |-> [loaded_records |-> done.loaded_records,
                       failed_records |-> done.failed_records,
                       total_records |-> Len(transformed_records)],
              calls |-> done.calls, results |-> done.results,
              rows |-> done.rows]

-----------------------------------------------------------------------------
(* Reporting queries *)

SetMin(S) == CHOOSE x \in S : \A y \in S : x <= y

SetMax(S) == CHOOSE x \in S : \A y \in S : x >= y

RECURSIVE SeqSum(_)
SeqSum(q) == IF q = <<>> THEN 0 ELSE Head(q) + SeqSum(Tail(q))

(* The indices of the rows a WHERE clause keeps. *)
RowsSince(table, since) ==
    {i \in DOMAIN table : Instant(table[i].timestamp_utc) >= since}

(* MIN / MAX / the values of a nullable column over a set of rows. *)
Temperatures(table, idx) ==
    {Val(table[i].temperature) : i \in {j \in idx : ~IsNull(table[j].temperature)}}

SqlMin(S) == IF S = {} THEN Null ELSE Some(SetMin(S))

SqlMax(S) == IF S = {} THEN Null ELSE Some(SetMax(S))

UtcWindowHours == 24

TempWindowHours == 1

OldRecordDays == 7

MinPlausibleTemp == -50

MaxPlausibleTemp == 60

(* utc_check_query at database time now. *)
UtcCheck(table, now) ==
    LET idx == RowsSince(table, now - UtcWindowHours)
        future == {i \in idx : Instant(table[i].timestamp_utc) > now}
        old == {i \in idx : Instant(table[i].timestamp_utc)
                                < now - OldRecordDays * 24}
    IN  [total_records |-> Cardinality(idx),
         future_records |-> Cardinality(future),
         old_records |-> Cardinality(old),
         passed |-> Cardinality(future) = 0]

(* TempCheck over the window of the timestamp check. *)
TempCheckDayWindow(table, now) ==
    LET idx == RowsSince(table, now - UtcWindowHours)
        extreme == {i \in idx :
                       /\ ~IsNull(table[i].temperature)
                       /\ \/ Val(table[i].temperature) < MinPlausibleTemp
                          \/ Val(table[i].temperature) > MaxPlausibleTemp}
    IN  [min_temperature |-> SqlMin(Temperatures(table, idx)),
         max_temperature |-> SqlMax(Temperatures(table, idx)),
         extreme_temperatures |-> Cardinality(extreme),
         passed |-> Cardinality(extreme) = 0]

(* temp_check_query at database time now. *)
TempCheck(table, now) ==
    LET idx == RowsSince(table, now - TempWindowHours)
        extreme == {i \in idx :
                       /\ ~IsNull(table[i].temperature)
                       /\ \/ Val(table[i].temperature) < MinPlausibleTemp
                          \/ Val(table[i].temperature) > MaxPlausibleTemp}
    IN  [min_temperature |-> SqlMin(Temperatures(table, idx)),
         max_temperature |-> SqlMax(Temperatures(table, idx)),
         extreme_temperatures |-> Cardinality(extreme),
         passed |-> Cardinality(extreme) = 0]

(* The dict data_quality_check returns when neither query raises;            *)
(* overall_score "p/t" is the pair <<p, t>>.                                 *)
data_quality_check(table, now) ==
    LET checks == [utc_timestamp_check |-> UtcCheck(table, now),
                   temperature_check |-> TempCheck(table, now)]
        passed_checks == Cardinality({c \in DOMAIN checks : checks[c].passed})
        total_checks == Cardinality(DOMAIN checks)
    IN  [timestamp |-> get_utc_now(now),
         checks |-> checks,
         overall_score |-> <<passed_checks, total_checks>>,
         all_passed |-> passed_checks = total_checks]

(* View latest_weather_by_city: for each city its most recent row. *)
LatestWeatherByCity(table) ==
    {i \in DOMAIN table :
        \A j \in DOMAIN table :
            table[j].city_name = table[i].city_name =>
                \/ Instant(table[j].timestamp_utc)
                       < Instant(table[i].timestamp_utc)
                \/ /\ Instant(table[j].timestamp_utc)
                          = Instant(table[i].timestamp_utc)
                   /\ j <= i}

(* The dict generate_weather_summary returns when neither query raises.      *)
(* An average is kept as the exact pair <<sum, count>>; `x if x else None`   *)
(* turns an average of zero into None as it does a missing one.  The         *)
(* humidity and pressure averages follow the temperature's pattern.          *)
generate_weather_summary(result, table, now, lo) ==
    LET idx == LatestWeatherByCity(table)
        temps == Temperatures(table, idx)
        known == {i \in idx : ~IsNull(table[i].temperature)}
        total == SeqSum([k \in 1..Len(table) |->
                            IF k \in known THEN Val(table[k].temperature)
                            ELSE 0])
        stamps == {Instant(table[i].timestamp_utc) : i \in idx}
    IN  [etl_timestamp_utc |-> get_utc_now(now),
         etl_timestamp_local |-> get_local_now(now, lo),
         load_result |-> result,
         weather_summary |->
             [total_cities |-> Cardinality(idx),
              avg_temperature |-> IF known = {} \/ total = 0 THEN Null
                                  ELSE Some(<<total, Cardinality(known)>>),
              min_temperature |-> SqlMin(temps),
              max_temperature |-> SqlMax(temps),
              earliest_data_utc |-> SqlMin(stamps),
              latest_data_utc |-> SqlMax(stamps),
              total_records_24h |->
                  Cardinality(RowsSince(table, now - UtcWindowHours))]]

-----------------------------------------------------------------------------
(* The DAG and its orchestrator *)

Tasks ==
    {"get_active_locations", "extract_weather_data", "transform_weather_data",
     "load_weather_data", "generate_weather_summary", "data_quality_check"}

(* Upstream with data_quality_check fed the Normalizer's output. *)
UpstreamQualityOffTransform(t) ==
    CASE t = "get_active_locations" -> {}
      [] t = "extract_weather_data" -> {"get_active_locations"}
      [] t = "transform_weather_data" -> {"extract_weather_data"}
      [] t = "load_weather_data" -> {"transform_weather_data"}
      [] t = "generate_weather_summary" -> {"load_weather_data"}
      [] t = "data_quality_check" -> {"transform_weather_data"}

(* Upstream with generate_weather_summary given no argument. *)
UpstreamSummaryUnwired(t) ==
    CASE t = "get_active_locations" -> {}
      [] t = "extract_weather_data" -> {"get_active_locations"}
      [] t = "transform_weather_data" -> {"extract_weather_data"}
      [] t = "load_weather_data" -> {"transform_weather_data"}
      [] t = "generate_weather_summary" -> {}
      [] t = "data_quality_check" -> {"load_weather_data"}

(* The tasks whose return value a task takes as its argument. *)
Upstream(t) ==
    CASE t = "get_active_locations" -> {}
      [] t = "extract_weather_data" -> {"get_active_locations"}
      [] t = "transform_weather_data" -> {"extract_weather_data"}
      [] t = "load_weather_data" -> {"transform_weather_data"}
      [] t = "generate_weather_summary" -> {"load_weather_data"}
      [] t = "data_quality_check" -> {"load_weather_data"}

(* default_args['retries'] *)
Retries == 3


orchVars == <<state, try_number>>

providerVars == <<locations, loc_log, prev_locations, store_changed>>

fetchVars == <<http_calls, http_responses, raw_data>>

transformVars == <<current_local, current_utc, transformed_data>>

loadVars == <<weather_data, insert_calls, insert_results, load_result>>

(* The scheduler starts a task (first try or retry) once every upstream      *)
(* task has succeeded.                                                       *)
Start(t) ==
    /\ state[t] \in {"none", "up_for_retry"}
    /\ \A u \in Upstream(t) : state[u] = "success"
    /\ state' = [state EXCEPT ![t] = "running"]
    /\ try_number' = [try_number EXCEPT ![t] = @ + 1]
    /\ UNCHANGED <<store, local_offset, clock, providerVars, fetchVars,
                   transformVars, loadVars, summary, quality_check>>

(* A running task returns. *)
Succeed(t) ==
    /\ state[t] = "running"
    /\ state' = [state EXCEPT ![t] = "success"]
    /\ UNCHANGED try_number

(* Raise giving up one retry early. *)
RaiseOneRetryShort(t) ==
    /\ state[t] = "running"
    /\ state' = [state EXCEPT ![t] = IF try_number[t] < Retries
                                     THEN "up_for_retry" ELSE "failed"]
    /\ UNCHANGED try_number

(* A running task raises: it is retried while tries remain. *)
Raise(t) ==
    /\ state[t] = "running"
    /\ state' = [state EXCEPT ![t] = IF try_number[t] <= Retries
                                     THEN "up_for_retry" ELSE "failed"]
    /\ UNCHANGED try_number

(* One call of get_active_locations against the store as it is. *)
ProviderCall ==
    LET r == get_active_locations(store)
    IN  /\ locations' = r.ret
        /\ loc_log' = r.log
        /\ prev_locations' = IF loc_log # "" /\ ~store_changed
                             THEN Some(locations) ELSE Null
        /\ store_changed' = FALSE

GetActiveLocationsTask ==
    /\ Succeed("get_active_locations")
    /\ ProviderCall
    /\ UNCHANGED <<store, local_offset, clock, fetchVars, transformVars,
                   loadVars, summary, quality_check>>

(* extract_weather_data, each request meeting a response of ResponseSet. *)
ExtractWith(ResponseSet) ==
    /\ Succeed("extract_weather_data")
    /\ \E responses \in [1..Len(locations) -> ResponseSet] :
          LET r == extract_weather_data(locations, responses)
          IN  /\ raw_data' = r.weather_data
              /\ http_calls' = r.calls
              /\ http_responses' = responses
    /\ UNCHANGED <<store, local_offset, clock, providerVars, transformVars,
                   loadVars, summary, quality_check>>

(* transform_weather_data: the clock may advance by tick between the two     *)
(* reads of "now" at entry.                                                  *)
TransformWith(TickSet) ==
    /\ Succeed("transform_weather_data")
    /\ \E tick \in TickSet :
          LET cl == get_local_now(clock, local_offset)
              cu == get_utc_now(clock + tick)
          IN  /\ current_local' = Some(cl)
              /\ current_utc' = Some(cu)
              /\ transformed_data' =
                     transform_weather_data(raw_data, cl, cu, local_offset)
              /\ clock' = clock + tick
    /\ UNCHANGED <<store, local_offset, providerVars, fetchVars, loadVars,
                   summary, quality_check>>

LoadWeatherDataTask ==
    /\ Succeed("load_weather_data")
    /\ \E ok \in [1..Len(transformed_data) -> BOOLEAN] :
          LET r == load_weather_data(transformed_data, ok)
          IN  /\ load_result' = Some(r.ret)
              /\ insert_calls' = r.calls
              /\ insert_results' = r.results
              /\ weather_data' = weather_data \o r.rows
    /\ UNCHANGED <<store, local_offset, clock, providerVars, fetchVars,
                   transformVars, summary, quality_check>>

GenerateWeatherSummaryTask ==
    /\ \/ /\ Succeed("generate_weather_summary")
          /\ summary' = Some(generate_weather_summary(
                                 Val(load_result), weather_data, clock,
                                 local_offset))
       \/ /\ Raise("generate_weather_summary")
          /\ UNCHANGED summary
    /\ UNCHANGED <<store, local_offset, clock, providerVars, fetchVars,
                   transformVars, loadVars, quality_check>>

DataQualityCheckTask ==
    /\ \/ /\ Succeed("data_quality_check")
          /\ quality_check' = Some(data_quality_check(weather_data, clock))
       \/ /\ Raise("data_quality_check")
          /\ UNCHANGED quality_check
    /\ UNCHANGED <<store, local_offset, clock, providerVars, fetchVars,
                   transformVars, loadVars, summary>>

-----------------------------------------------------------------------------
(* Inputs *)

MaxRows == 2

MaxLocs == 2

MaxTableRows == 2

MaxTick == 1

StartClock == 1000

SeqsUpTo(S, n) == UNION {[1..k -> S] : k \in 0..n}

Goa == <<"G", "o", "a">>

ConfigRow(name, lat, active) ==
    [city_name |-> name, country |-> "c", latitude |-> lat,
     longitude |-> Some(-740060), timezone |-> "UTC", is_active |-> active]

ConfigRows ==
    {ConfigRow(Some(NewYork), Some(407128), TRUE),
     ConfigRow(Some(StrLower(NewYork)), Some(407000), TRUE),
     ConfigRow(Some(Goa), Some(154909), TRUE),
     ConfigRow(Some(Goa), Some(154909), FALSE),
     ConfigRow(Null, Some(154909), TRUE),
     ConfigRow(Some(Goa), Null, TRUE)}

Stores == [up : BOOLEAN, rows : SeqsUpTo(ConfigRows, MaxRows)]

LocalOffsets == {-5, 0, 5}

(* The strings the API may send as current.time, sunrise or sunset. *)
TimeStrings ==
    {EmptyStr, JunkStr(""), JunkStr("T"),
     IsoStr(" ", StartClock - 2, ""),
     IsoStr("T", StartClock - 2, ""),
     IsoStr("T", StartClock - 2, "Z"),
     IsoStr("T", StartClock, "+02:00"),
     IsoStr("T", StartClock - 7, "-05:00")}

FullCurrent ==
    [time |-> IsoStr("T", StartClock - 2, ""),
     temperature_2m |-> 21, relative_humidity_2m |-> 40,
     apparent_temperature |-> 19, weather_code |-> 61, cloud_cover |-> 75,
     pressure_msl |-> 1013, wind_speed_10m |-> 12,
     wind_direction_10m |-> 270]

FullDaily ==
    [sunrise |-> <<IsoStr("T", StartClock - 8, "")>>,
     sunset |-> <<IsoStr("T", StartClock + 6, "")>>,
     uv_index_max |-> <<5>>]

(* m without the keys of ks. *)
Without(m, ks) == [k \in DOMAIN m \ ks |-> m[k]]

FullBody == [current |-> FullCurrent, daily |-> FullDaily]

ErrorBody == [error |-> TRUE, reason |-> "bad request"]

Bodies == {FullBody, [daily |-> FullDaily], [current |-> FullCurrent]}

Raised == [kind |-> "raise", status_code |-> 0, json |-> Null]

Response(code, json) ==
    [kind |-> "response", status_code |-> code, json |-> json]

Responses ==
    {Raised, Response(404, Null), Response(400, Some(ErrorBody)),
     Response(200, Null)}
        \cup {Response(200, Some(b)) : b \in Bodies}

PipelineResponses == {Response(500, Null), Response(200, Some(FullBody))}

PipelineStores ==
    {[up |-> FALSE, rows |-> <<>>],
     [up |-> TRUE, rows |-> <<ConfigRow(Some(NewYork), Some(407128), TRUE),
                             ConfigRow(Some(Goa), Some(154909), TRUE)>>]}

-----------------------------------------------------------------------------
(* One run of the DAG *)

InitData ==
    /\ clock = StartClock
    /\ locations = EmptyDict
    /\ loc_log = ""
    /\ prev_locations = Null
    /\ store_changed = FALSE
    /\ http_calls = <<>>
    /\ http_responses = <<>>
    /\ raw_data = EmptyDict
    /\ current_local = Null
    /\ current_utc = Null
    /\ transformed_data = <<>>
    /\ weather_data = <<>>
    /\ insert_calls = <<>>
    /\ insert_results = <<>>
    /\ load_result = Null
    /\ summary = Null
    /\ quality_check = Null

Init ==
    /\ state = [t \in Tasks |-> "none"]
    /\ try_number = [t \in Tasks |-> 0]
    /\ store \in PipelineStores
    /\ local_offset \in LocalOffsets
    /\ InitData

ExtractWeatherDataTask == ExtractWith(PipelineResponses)

TransformWeatherDataTask == TransformWith({0})

Next ==
    \/ \E t \in Tasks : Start(t)
    \/ GetActiveLocationsTask
    \/ ExtractWeatherDataTask
    \/ TransformWeatherDataTask
    \/ LoadWeatherDataTask
    \/ GenerateWeatherSummaryTask
    \/ DataQualityCheckTask

Spec == Init /\ [][Next]_vars

-----------------------------------------------------------------------------
(* The Location Provider called again and again while the configuration     *)
(* store changes under it.                                                   *)

CallGetActiveLocations ==
    /\ ProviderCall
    /\ UNCHANGED <<orchVars, store, local_offset, clock, fetchVars,
                   transformVars, loadVars, summary, quality_check>>

(* A row is added or removed, or the store goes down or comes back. *)
ChangeStore ==
    /\ \E st \in Stores :
          /\ \/ st.rows = store.rows /\ st.up # store.up
             \/ st.up = store.up
                    /\ \E r \in ConfigRows :
                          \/ st.rows = Append(store.rows, r)
                          \/ store.rows = Append(st.rows, r)
          /\ store' = st
    /\ store_changed' = TRUE
    /\ UNCHANGED <<orchVars, local_offset, clock, locations, loc_log,
                   prev_locations, fetchVars, transformVars, loadVars,
                   summary, quality_check>>

InitProvider ==
    /\ state = [t \in Tasks |-> "none"]
    /\ try_number = [t \in Tasks |-> 0]
    /\ store \in Stores
    /\ local_offset = 0
    /\ InitData

NextProvider == CallGetActiveLocations \/ ChangeStore

SpecProvider == InitProvider /\ [][NextProvider]_vars

-----------------------------------------------------------------------------
(* Each later stage on its own, started in a state a run can be in when the  *)
(* stage starts.                                                             *)

(* The orchestrator's state when task t runs for the first time. *)
Running(t, done) ==
    /\ state = [u \in Tasks |-> IF u = t THEN "running"
                                ELSE IF u \in done THEN "success"
                                ELSE "none"]
    /\ try_number = [u \in Tasks |-> IF u \in done \cup {t} THEN 1 ELSE 0]

StoreDown == [up |-> FALSE, rows |-> <<>>]

(* The Fetcher, for every location map the Provider can return. *)
LocationMaps == {get_active_locations(st).ret : st \in Stores}

InitFetch ==
    /\ Running("extract_weather_data", {"get_active_locations"})
    /\ \E m \in LocationMaps :
          /\ store = CHOOSE st \in Stores : get_active_locations(st).ret = m
          /\ locations = m
          /\ loc_log = get_active_locations(store).log
    /\ local_offset = 0
    /\ clock = StartClock
    /\ prev_locations = Null
    /\ store_changed = FALSE
    /\ http_calls = <<>>
    /\ http_responses = <<>>
    /\ raw_data = EmptyDict
    /\ current_local = Null
    /\ current_utc = Null
    /\ transformed_data = <<>>
    /\ weather_data = <<>>
    /\ insert_calls = <<>>
    /\ insert_results = <<>>
    /\ load_result = Null
    /\ summary = Null
    /\ quality_check = Null

ExtractAnyResponse == ExtractWith(Responses)

SpecFetch == InitFetch /\ [][ExtractAnyResponse]_vars

(* The state after the Fetcher ran over the default locations and met        *)
(* responses. *)
Fetched(responses) ==
    LET r == extract_weather_data(DEFAULT_LOCATIONS, responses)
    IN  /\ store = StoreDown
        /\ locations = DEFAULT_LOCATIONS
        /\ loc_log = "error"
        /\ prev_locations = Null
        /\ store_changed = FALSE
        /\ http_calls = r.calls
        /\ http_responses = responses
        /\ raw_data = r.weather_data

(* The first locations answer 200 with the bodies bs, the others 404. *)
OkThenFail(bs) ==
    [i \in 1..Len(DEFAULT_LOCATIONS) |->
        IF i <= Len(bs) THEN Response(200, Some(bs[i]))
        ELSE Response(404, Null)]

(* Bodies that differ in current.time only. *)
TimeBodies ==
    {[FullBody EXCEPT !.current.time = s] : s \in TimeStrings}
        \cup {[FullBody EXCEPT !.current = Without(FullCurrent, {"time"})]}

(* Bodies with any set of passthrough fields missing and each daily list     *)
(* absent, empty or filled.                                                  *)
PassKeys ==
    {"temperature_2m", "relative_humidity_2m", "apparent_temperature",
     "weather_code", "cloud_cover", "pressure_msl", "wind_speed_10m",
     "wind_direction_10m"}

DailyKeys == {"sunrise", "sunset", "uv_index_max"}

SparseBodies ==
    {[current |-> Without(FullCurrent, missing),
      daily |-> [k \in DOMAIN FullDaily \ absent |->
                    IF k \in empty THEN <<>> ELSE FullDaily[k]]] :
        missing \in SUBSET PassKeys,
        absent \in SUBSET DailyKeys,
        empty \in SUBSET DailyKeys}

(* Bodies that differ in current.time and in the daily lists. *)
TimeSparseBodies ==
    {[current |-> t.current, daily |-> d.daily] :
        t \in TimeBodies,
        d \in {b \in SparseBodies : DOMAIN b.current = DOMAIN FullCurrent}}

TransformInputs ==
    {OkThenFail(bs) : bs \in SeqsUpTo(TimeBodies, MaxLocs)}
        \cup {OkThenFail(<<b>>) : b \in SparseBodies \cup TimeSparseBodies}

InitTransform ==
    /\ Running("transform_weather_data",
               {"get_active_locations", "extract_weather_data"})
    /\ \E responses \in TransformInputs : Fetched(responses)
    /\ local_offset \in LocalOffsets
    /\ clock = StartClock
    /\ current_local = Null
    /\ current_utc = Null
    /\ transformed_data = <<>>
    /\ weather_data = <<>>
    /\ insert_calls = <<>>
    /\ insert_results = <<>>
    /\ load_result = Null
    /\ summary = Null
    /\ quality_check = Null

TransformAnyTick == TransformWith(0..MaxTick)

SpecTransform == InitTransform /\ [][TransformAnyTick]_vars

(* The state after the Normalizer ran at time now on what Fetched left. *)
Transformed(responses, now, lo) ==
    /\ Fetched(responses)
    /\ local_offset = lo
    /\ clock = now
    /\ current_local = Some(get_local_now(now, lo))
    /\ current_utc = Some(get_utc_now(now))
    /\ transformed_data =
           transform_weather_data(
               extract_weather_data(DEFAULT_LOCATIONS, responses).weather_data,
               get_local_now(now, lo), get_utc_now(now), lo)

(* Each default location answers 200 with the full body, or 404. *)
LoadInputs ==
    [1..Len(DEFAULT_LOCATIONS) ->
        {Response(200, Some(FullBody)), Response(404, Null)}]

InitLoad ==
    /\ Running("load_weather_data",
               {"get_active_locations", "extract_weather_data",
                "transform_weather_data"})
    /\ \E responses \in LoadInputs : Transformed(responses, StartClock, 5)
    /\ weather_data = <<>>
    /\ insert_calls = <<>>
    /\ insert_results = <<>>
    /\ load_result = Null
    /\ summary = Null
    /\ quality_check = Null

SpecLoad == InitLoad /\ [][LoadWeatherDataTask]_vars

(* The Quality Checker over a table filled by earlier runs, in a run that    *)
(* fetched nothing.                                                          *)
StoredRow(temperature, instant) ==
    [TransformRecord([location |-> DEFAULT_LOCATIONS[1][2],
                      current |-> FullCurrent, daily |-> FullDaily],
                     get_local_now(instant, 0), get_utc_now(instant), 0)
        EXCEPT !.temperature = temperature,
               !.timestamp = Naive(instant),
               !.timestamp_utc = Aware(instant, 0)]

StoredRows ==
    {StoredRow(t, StartClock + d) :
        t \in {Null, Some(-51), Some(-50), Some(60), Some(61), Some(85)},
        d \in {1, 0, -1, -2, -24, -25}}

InitQuality ==
    /\ Running("data_quality_check", Tasks \ {"generate_weather_summary",
                                               "data_quality_check"})
    /\ Transformed(OkThenFail(<<>>), StartClock, 0)
    /\ weather_data \in SeqsUpTo(StoredRows, MaxTableRows)
    /\ insert_calls = <<>>
    /\ insert_results = <<>>
    /\ load_result = Some(load_weather_data(<<>>, <<>>).ret)
    /\ summary = Null
    /\ quality_check = Null

SpecQuality == InitQuality /\ [][DataQualityCheckTask]_vars

-----------------------------------------------------------------------------
(* Properties *)

Done(t) == state[t] = "success"

Started(t) == state[t] # "none"

NeverRaised(t) == state[t] \notin {"up_for_retry", "failed"}

Count(q) == Cardinality({i \in DOMAIN q : q[i]})

(* C1: once load_weather_data has returned on a non-empty record sequence,   *)
(* every record got exactly one INSERT, in order, whatever failed before it; *)
(* the task did not raise; loaded_records is the number of INSERTs that      *)
(* succeeded, failed_records the number that raised, total_records the       *)
(* number of records, and loaded_records + failed_records = total_records.   *)
LoaderCountsEveryRecord ==
    /\ NeverRaised("load_weather_data")
    /\ Done("load_weather_data") /\ transformed_data # <<>> =>
          /\ insert_calls = transformed_data
          /\ Len(insert_results) = Len(transformed_data)
          /\ DOMAIN Val(load_result) =
                 {"loaded_records", "failed_records", "total_records"}
          /\ Val(load_result).loaded_records = Count(insert_results)
          /\ Val(load_result).failed_records =
                 Count([i \in DOMAIN insert_results |-> ~insert_results[i]])
          /\ Val(load_result).total_records = Len(transformed_data)
          /\ Val(load_result).loaded_records
                 + Val(load_result).failed_records
                 = Val(load_result).total_records
          /\ Len(weather_data) = Val(load_result).loaded_records

(* Five records of which the second INSERT raised: 4 / 1 / 5. *)
LoaderOneOfFiveFailed ==
    /\ Done("load_weather_data")
    /\ Len(transformed_data) = 5
    /\ insert_results = <<TRUE, FALSE, TRUE, TRUE, TRUE>>
    /\ Val(load_result) = [loaded_records |-> 4, failed_records |-> 1,
                           total_records |-> 5]

(* The indices of the requests answered 200 with a body that parses. *)
Answered200 ==
    {i \in DOMAIN http_responses :
        /\ http_responses[i].kind = "response"
        /\ http_responses[i].status_code = 200
        /\ ~IsNull(http_responses[i].json)}

(* C2: once extract_weather_data has returned, every location was requested  *)
(* exactly once, the task did not raise, and the keys of the returned map    *)
(* are exactly the slugs whose request was answered 200 without an           *)
(* exception, each entry carrying its own location.                          *)
FetcherKeepsExactlyTheAnswered ==
    /\ NeverRaised("extract_weather_data")
    /\ Done("extract_weather_data") =>
          /\ http_calls = [i \in DOMAIN locations |-> locations[i][1]]
          /\ DictKeys(raw_data) = {locations[i][1] : i \in Answered200}
          /\ Len(raw_data) = Cardinality(Answered200)
          /\ \A i \in Answered200 :
                DictGet(raw_data, locations[i][1]).location = locations[i][2]

(* Five locations, the third answered 404, the others 200: four entries. *)
FetcherOneNon200 ==
    /\ Done("extract_weather_data")
    /\ Len(locations) = 5
    /\ Answered200 = {1, 2, 4, 5}
    /\ http_responses[3] = Response(404, Null)
    /\ Len(raw_data) = 4

(* C3: no stage has started unless the stage that produces its input has     *)
(* completed: the Fetcher after the Provider, the Normalizer after the       *)
(* Fetcher, the Loader after the Normalizer, the Summary Reporter and the    *)
(* Quality Checker after the Loader.                                         *)
StagesStartAfterTheirProducer ==
    /\ Started("extract_weather_data") => Done("get_active_locations")
    /\ Started("transform_weather_data") => Done("extract_weather_data")
    /\ Started("load_weather_data") => Done("transform_weather_data")
    /\ Started("generate_weather_summary") => Done("load_weather_data")
    /\ Started("data_quality_check") => Done("load_weather_data")

(* Both reporters have started, one of them for the second time. *)
BothReportersStarted ==
    /\ state["generate_weather_summary"] = "running"
    /\ try_number["generate_weather_summary"] = 2
    /\ Started("data_quality_check")

RunningTasks == {t \in Tasks : state[t] = "running"}

Reporters == {"generate_weather_summary", "data_quality_check"}

(* C4 as claimed: at most one stage is executing at any time. *)
AtMostOneStageRunning == Cardinality(RunningTasks) <= 1

(* C4 as amended: Provider, Fetcher, Normalizer and Loader execute one at a  *)
(* time and never while a reporter executes; the only two stages that can    *)
(* execute at the same time are the Summary Reporter and the Quality         *)
(* Checker.                                                                  *)
OnlyReportersOverlap ==
    \A t, u \in RunningTasks : t # u => {t, u} = Reporters

ReportersRunTogether == RunningTasks = Reporters

(* The raw entry a record was built from. *)
SourceOf(rec) ==
    raw_data[CHOOSE i \in DOMAIN raw_data :
                 raw_data[i][2].location.name = rec.city_name][2]

RecordsOf(data) ==
    {j \in DOMAIN transformed_data :
        transformed_data[j].city_name = data.location.name}

(* The payload supplied an observation time that has the date/time           *)
(* separator and parses. *)
SuppliedParsableTime(current) ==
    /\ "time" \in DOMAIN current
    /\ current.time.form = "iso"
    /\ current.time.sep = "T"
    /\ current.time.suffix \in {"", "Z", "+00:00", "+02:00", "-05:00"}

(* The observation time is missing, empty, without separator or unparsable. *)
NeedsFallback(current) ==
    \/ "time" \notin DOMAIN current
    \/ current.time.form = "empty"
    \/ current.time.sep # "T"
    \/ current.time.form = "junk"

(* C5: in every record the Normalizer produced, timestamp_utc carries a      *)
(* zone and timestamp carries none; and when the payload supplied a          *)
(* parsable observation time, timestamp read as wall-clock time of the       *)
(* process's local zone is the instant of timestamp_utc.                     *)
TimestampsDenoteOneInstant ==
    Done("transform_weather_data") =>
        \A j \in DOMAIN transformed_data :
            LET rec == transformed_data[j]
            IN  /\ rec.timestamp_utc.aware
                /\ ~rec.timestamp.aware
                /\ SuppliedParsableTime(SourceOf(rec).current) =>
                       rec.timestamp.wall - local_offset
                           = Instant(rec.timestamp_utc)

(* C6: after one execution of the Normalizer, every entry whose observation  *)
(* time needs the fallback, and whose other fields transform, has exactly    *)
(* one record, carrying the pair captured at entry; so all such records      *)
(* share one timestamp and one timestamp_utc.                                *)
FallbackPairShared ==
    Done("transform_weather_data") =>
        /\ \A i \in DOMAIN raw_data :
              LET data == raw_data[i][2]
              IN  NeedsFallback(data.current) /\ ~TransformRaises(data) =>
                      /\ Cardinality(RecordsOf(data)) = 1
                      /\ \A j \in RecordsOf(data) :
                            /\ transformed_data[j].timestamp
                                   = Val(current_local)
                            /\ transformed_data[j].timestamp_utc
                                   = Val(current_utc)
        /\ \A j, k \in DOMAIN transformed_data :
              /\ NeedsFallback(SourceOf(transformed_data[j]).current)
              /\ NeedsFallback(SourceOf(transformed_data[k]).current)
              => /\ transformed_data[j].timestamp
                        = transformed_data[k].timestamp
                 /\ transformed_data[j].timestamp_utc
                        = transformed_data[k].timestamp_utc
        /\ Val(current_local) = get_local_now(StartClock, local_offset)
        /\ Val(current_utc) = get_utc_now(clock)

(* Two records fell back, one for a missing time and one for a time without  *)
(* the separator, in a process ahead of UTC whose clock moved at entry.      *)
TwoRecordsFellBack ==
    /\ Done("transform_weather_data")
    /\ Len(transformed_data) = 2
    /\ "time" \notin DOMAIN raw_data[1][2].current
    /\ "time" \in DOMAIN raw_data[2][2].current
    /\ raw_data[2][2].current.time = IsoStr(" ", StartClock - 2, "")
    /\ local_offset = 5
    /\ clock = StartClock + 1

ExtremeRows(from, to) ==
    {i \in DOMAIN weather_data :
        /\ Instant(weather_data[i].timestamp_utc) >= from
        /\ Instant(weather_data[i].timestamp_utc) <= to
        /\ ~IsNull(weather_data[i].temperature)
        /\ \/ Val(weather_data[i].temperature) < -50
           \/ Val(weather_data[i].temperature) > 60}

(* C7 as claimed: temperature_check.passed iff no row of the last 24 hours   *)
(* has a temperature below -50 or above 60, and such a row makes all_passed  *)
(* false.                                                                    *)
TemperatureCheckCoversLastDay ==
    Done("data_quality_check") =>
        LET q == Val(quality_check)
        IN  /\ q.checks.temperature_check.passed
                   <=> ExtremeRows(clock - 24, clock) = {}
            /\ ExtremeRows(clock - 24, clock) # {} => ~q.all_passed

(* C7 as amended: temperature_check.passed iff no row stamped within the     *)
(* last hour or later has a temperature below -50 or above 60, and such a    *)
(* row makes all_passed false.                                               *)
TemperatureCheckCoversLastHour ==
    Done("data_quality_check") =>
        LET q == Val(quality_check)
            latest == SetMax({clock} \cup
                          {Instant(weather_data[i].timestamp_utc) :
                              i \in DOMAIN weather_data})
        IN  /\ q.checks.temperature_check.passed
                   <=> ExtremeRows(clock - 1, latest) = {}
            /\ ExtremeRows(clock - 1, latest) # {} => ~q.all_passed

(* A row of 85 degrees stored within the last hour fails the check. *)
RecentExtremeRowFails ==
    /\ Done("data_quality_check")
    /\ \E i \in DOMAIN weather_data :
          /\ weather_data[i].temperature = Some(85)
          /\ Instant(weather_data[i].timestamp_utc) = clock - 1
    /\ ~Val(quality_check).checks.temperature_check.passed
    /\ ~Val(quality_check).all_passed

Missing(m, k) == k \notin DOMAIN m

MissingList(m, k) == k \notin DOMAIN m \/ Len(m[k]) = 0

(* C8: for every fetched location and every set of fields missing from its   *)
(* payload, the Normalizer emits a record in which each missing passthrough  *)
(* field is null.                                                            *)
MissingFieldsBecomeNull ==
    Done("transform_weather_data") =>
        \A i \in DOMAIN raw_data :
            LET data == raw_data[i][2]
                c == data.current
                d == data.daily
            IN  /\ RecordsOf(data) # {}
                /\ \A j \in RecordsOf(data) :
                      LET rec == transformed_data[j]
                      IN  /\ Missing(c, "temperature_2m")
                                 => IsNull(rec.temperature)
                          /\ Missing(c, "apparent_temperature")
                                 => IsNull(rec.feels_like)
                          /\ Missing(c, "relative_humidity_2m")
                                 => IsNull(rec.humidity)
                          /\ Missing(c, "pressure_msl") => IsNull(rec.pressure)
                          /\ Missing(c, "wind_speed_10m")
                                 => IsNull(rec.windspeed)
                          /\ Missing(c, "wind_direction_10m")
                                 => IsNull(rec.winddirection)
                          /\ Missing(c, "cloud_cover")
                                 => IsNull(rec.cloud_cover)
                          /\ Missing(c, "weather_code")
                                 => IsNull(rec.weathercode)
                          /\ MissingList(d, "uv_index_max")
                                 => IsNull(rec.uv_index)
                          /\ MissingList(d, "sunrise") => IsNull(rec.sunrise)
                          /\ MissingList(d, "sunset") => IsNull(rec.sunset)

ActiveIdx == {i \in DOMAIN store.rows : store.rows[i].is_active}

RetrievalRaised ==
    \/ ~store.up
    \/ \E i \in ActiveIdx :
          \/ store.rows[i].city_name = Null
          \/ store.rows[i].latitude = Null
          \/ store.rows[i].longitude = Null

SameMap(a, b) == {a[i] : i \in DOMAIN a} = {b[i] : i \in DOMAIN b}

(* C9: after a call of get_active_locations against the store as it still    *)
(* is, the defaults were used exactly when the store was down, a row failed  *)
(* to convert or no row was active; the map is then the five built-in        *)
(* cities, and otherwise holds one entry per slug of an active row, taken    *)
(* from the last such row; and a call that follows another with no change    *)
(* of the store in between returns the same map.                             *)
ProviderFallsBackExactlyOnFailureOrEmpty ==
    /\ NeverRaised("get_active_locations")
    /\ loc_log # "" /\ ~store_changed =>
          /\ loc_log \in {"error", "no_active"}
                 <=> (RetrievalRaised \/ ActiveIdx = {})
          /\ loc_log \in {"error", "no_active"}
                 => locations = DEFAULT_LOCATIONS
          /\ loc_log = "error" <=> RetrievalRaised
          /\ loc_log = "retrieved" =>
                /\ DictKeys(locations) =
                       {CityKey(Val(store.rows[i].city_name)) : i \in ActiveIdx}
                /\ \A i \in ActiveIdx :
                      LET r == store.rows[i]
                          later == {j \in ActiveIdx :
                                       /\ j > i
                                       /\ CityKey(Val(store.rows[j].city_name))
                                              = CityKey(Val(r.city_name))}
                      IN  later = {} =>
                              DictGet(locations, CityKey(Val(r.city_name)))
                                  = [name |-> Val(r.city_name),
                                     country |-> r.country,
                                     lat |-> Val(r.latitude),
                                     lon |-> Val(r.longitude),
                                     timezone |-> r.timezone]
          /\ ~IsNull(prev_locations)
                 => SameMap(Val(prev_locations), locations)

(* A second call against an unchanged store holding two well-formed active   *)
(* rows of one slug. *)
ProviderCalledTwiceOnRows ==
    /\ loc_log = "retrieved"
    /\ ~store_changed
    /\ ~IsNull(prev_locations)
    /\ Cardinality(ActiveIdx) = 2
    /\ Len(locations) = 1

(* C10: load_weather_data returns all three counts for every input, the      *)
(* empty one included, where it attempts no INSERT and returns 0 / 0 / 0;    *)
(* total_records is always the number of input records.                      *)
LoaderAlwaysReturnsThreeCounts ==
    Done("load_weather_data") =>
        /\ DOMAIN Val(load_result) =
               {"loaded_records", "failed_records", "total_records"}
        /\ Val(load_result).total_records = Len(transformed_data)
        /\ transformed_data = <<>> =>
               /\ insert_calls = <<>>
               /\ Val(load_result).loaded_records = 0
               /\ Val(load_result).failed_records = 0

ChainStages == Tasks \ Reporters

(* C11 as claimed: no stage is executed more than 3 times in one run. *)
AtMostThreeExecutions == \A t \in Tasks : try_number[t] <= 3

(* C11 as amended: a stage that raised waits for a retry the scheduler can   *)
(* start, which executes it again as a whole; a stage is executed at most 4  *)
(* times in one run, the first try and three retries, and has failed only    *)
(* after the fourth; only the two reporters ever raise, and Provider,        *)
(* Fetcher, Normalizer and Loader are executed once, per-item failures       *)
(* or not.                                                                   *)
RetriedUpToThreeTimes ==
    /\ \A t \in Tasks :
          /\ try_number[t] <= 4
          /\ state[t] = "failed" => try_number[t] = 4
          /\ state[t] = "up_for_retry" =>
                /\ try_number[t] \in 1..3
                /\ ENABLED Start(t)
          /\ state[t] = "none" <=> try_number[t] = 0
    /\ \A t \in ChainStages :
          /\ NeverRaised(t)
          /\ try_number[t] <= 1

(* The Summary Reporter raised on each of its four executions and failed,    *)
(* in a run where a request and an INSERT had failed and the Loader ran      *)
(* once.                                                                     *)
SummaryFailedAfterFourTries ==
    /\ state["generate_weather_summary"] = "failed"
    /\ try_number["generate_weather_summary"] = 4
    /\ \E i \in DOMAIN http_responses : i \notin Answered200
    /\ \E i \in DOMAIN insert_results : ~insert_results[i]
    /\ try_number["load_weather_data"] = 1

====
